---- MODULE Spec2Model ----
(***************************************************************************)
(* Model of the bridge supervisor of mautrix-whatsapp (main.go): the main  *)
(* goroutine (flag parsing, NewBridge, GenerateRegistration, Init, Start,  *)
(* the wait for a termination signal, Stop), the os/signal delivery to the *)
(* channel Main waits on, and the users registry Stop iterates; and the    *)
(* goroutines Start launches: UpdateBotProfile, StartUsers with the        *)
(* Connect and StartCustomMXID goroutines it launches, and the autosave    *)
(* loop, with the registry operations that run beside them.                *)
(***************************************************************************)
EXTENDS Integers, Sequences, FiniteSets, TLC

\* ---- bounds ----
NUsers == 2
NPuppets == 2

\* ---- program constants ----
\* variant: an unbuffered stop channel
StopSaveLoopUnbuffered == 1 - 1
\* make(chan bool, 1)
StopSaveLoopCap == 1

Users == 1 .. NUsers
Puppets == 1 .. NPuppets
\* sessions a User record holds before Stop: 0 = none, 1 = the session
\* loaded from storage
StoredSessions == {0, 1}
\* resumable-session tokens the Disconnect of user u may return: fresh, and
\* different from the token of every other user
Tokens(u) == {u + 1}
NoExit == 0 - 1

Units == {"AS", "EventProcessor", "UpdateBotProfile", "StartUsers", "SaveLoop"}
InitSteps == <<"MakeAppService", "ASInit", "OpenFile", "StateStoreLoad",
               "LoadUsers", "LoadPortals", "LoadPuppets", "NewEventProcessor">>

VARIABLES
    pc,             \* position of the main goroutine
    genFlag,        \* *generateRegistration
    exitCode,       \* argument of os.Exit, NoExit while the process lives
    runtimeAbort,   \* "none", or how the Go runtime ended the process
    state,          \* lifecycle state of the supervisor
    calls,          \* collaborator calls made so far, in order
    failed,         \* calls that returned an error
    started,        \* units launched by Start
    filesWritten,   \* files written by GenerateRegistration
    usersByMXID,    \* keys of bridge.usersByMXID
    usersByJID,     \* users reachable from bridge.usersByJID
    conn,           \* users whose Conn is not nil
    session,        \* session stored in each User record
    usersChanged,   \* bridge.usersChanged
    stopSaveLoop,   \* number of values buffered in bridge.stopSaveLoop
    rangeStart,     \* entries of usersByJID when Stop's range began
    visited,        \* entries Stop's range has produced so far
    connAtStop,     \* users with a live session when Stop was entered
    discErr,        \* users whose Disconnect returned an error
    discTok,        \* token returned by each successful Disconnect (0 none)
    usersHanded,    \* sessions handed to SaveUsers by Stop (<<>> before)
    sigRegistered,  \* signal.Notify has registered channel c
    sigQueued,      \* a signal is queued in the runtime for os/signal
    sigInRunning,   \* a signal arrived after Start had returned
    sigReceived,    \* Main has received from c
    usersLock,      \* holder of bridge.usersLock, "none" when free
    botAvatar,      \* Config.AppService.Bot.Avatar
    botDisplayname, \* Config.AppService.Bot.Displayname
    pcBot,          \* position of the UpdateBotProfile goroutine
    botErr,         \* whether UpdateBotProfile's local err is not nil
    botCalls,       \* profile calls made on bridge.Bot, in order
    botFailed,      \* profile calls that returned an error
    botWarns,       \* warnings UpdateBotProfile logged
    portalsChanged, \* bridge.portalsChanged
    puppetsChanged, \* bridge.puppetsChanged
    pcSL,           \* position of the SaveLoop goroutine
    autosaved,      \* collections the autosave loop has written
    pcSU,           \* position of the StartUsers goroutine
    snapshot,       \* users returned by GetAllUsers
    upc,            \* state of each user's Connect goroutine
    puppetsLock,    \* holder of bridge.puppetsLock, "none" when free
    customPuppets,  \* puppets that have a custom MXID
    puppetSnapshot, \* puppets returned by GetAllPuppetsWithCustomMXID
    ppc,            \* state of each puppet's StartCustomMXID goroutine
    regpc           \* position of each user's registry operation

vars == <<pc, genFlag, exitCode, runtimeAbort, state, calls, failed, started,
          filesWritten, usersByMXID, usersByJID, conn, session, usersChanged,
          stopSaveLoop, rangeStart, visited, connAtStop, discErr, discTok,
          usersHanded, sigRegistered, sigQueued, sigInRunning, sigReceived,
          usersLock, botAvatar, botDisplayname, pcBot, botErr, botCalls,
          botFailed, botWarns, portalsChanged, puppetsChanged, pcSL,
          autosaved, pcSU, snapshot, upc, puppetsLock, customPuppets,
          puppetSnapshot, ppc, regpc>>

regVars == <<usersByMXID, usersByJID, conn, session, usersChanged>>
stopVars == <<stopSaveLoop, rangeStart, visited, connAtStop, discErr, discTok,
              usersHanded>>
sigVars == <<sigRegistered, sigQueued, sigInRunning, sigReceived>>
\* state of the goroutines Start launches and of the registry locks
botVars == <<botAvatar, botDisplayname, pcBot, botErr, botCalls, botFailed,
             botWarns>>
saveVars == <<portalsChanged, puppetsChanged, pcSL, autosaved>>
startVars == <<pcSU, snapshot, upc, puppetsLock, customPuppets,
               puppetSnapshot, ppc, regpc>>
unitVars == <<usersLock, botVars, saveVars, startVars>>

Alive == exitCode = NoExit /\ runtimeAbort = "none"

Call(name) == <<name, 0>>
Called(name) == \E i \in 1 .. Len(calls) : calls[i] = Call(name)
RECURSIVE CountOf(_, _)
CountOf(s, e) ==
    IF s = <<>> THEN 0
    ELSE (IF Head(s) = e THEN 1 ELSE 0) + CountOf(Tail(s), e)
\* index of the first occurrence of e in calls, 0 when absent
RECURSIVE IndexFrom(_, _)
IndexFrom(e, i) ==
    IF i > Len(calls) THEN 0
    ELSE IF calls[i] = e THEN i ELSE IndexFrom(e, i + 1)
IndexOf(e) == IndexFrom(e, 1)

\* UpdateBotProfile has not run
BotIdle ==
    /\ pcBot = "idle"
    /\ botErr = FALSE
    /\ botCalls = <<>>
    /\ botFailed = {}
    /\ botWarns = {}

\* SaveLoop has not run, no portal or puppet was changed
SaveIdle ==
    /\ portalsChanged = FALSE
    /\ puppetsChanged = FALSE
    /\ pcSL = "idle"
    /\ autosaved = {}

\* StartUsers has not run, no registry operation is in progress
StartIdle ==
    /\ pcSU = "idle"
    /\ snapshot = {}
    /\ upc = [u \in Users |-> "none"]
    /\ puppetsLock = "none"
    /\ puppetSnapshot = {}
    /\ ppc = [p \in Puppets |-> "none"]
    /\ regpc = [u \in Users |-> "idle"]

Init ==
    /\ pc = "main"
    /\ genFlag = FALSE
    /\ exitCode = NoExit
    /\ runtimeAbort = "none"
    /\ state = "Unconfigured"
    /\ calls = <<>>
    /\ failed = {}
    /\ started = {}
    /\ filesWritten = <<>>
    /\ usersByMXID = {}
    /\ usersByJID = {}
    /\ conn = {}
    /\ session = [u \in Users |-> 0]
    /\ usersChanged = FALSE
    /\ stopSaveLoop = 0
    /\ rangeStart = {}
    /\ visited = {}
    /\ connAtStop = {}
    /\ discErr = {}
    /\ discTok = [u \in Users |-> 0]
    /\ usersHanded = <<>>
    /\ sigRegistered = FALSE
    /\ sigQueued = FALSE
    /\ sigInRunning = FALSE
    /\ sigReceived = FALSE
    /\ usersLock = "none"
    /\ botAvatar = ""
    /\ botDisplayname = ""
    /\ BotIdle
    /\ SaveIdle
    /\ StartIdle
    /\ customPuppets = {}

\* os.Exit(code)
Exit(code) ==
    /\ exitCode' = code
    /\ pc' = "exited"

\* a collaborator call that returns an error ends the process with code,
\* one that succeeds moves the main goroutine to next
FatalStep(at, name, code, next) ==
    /\ Alive
    /\ pc = at
    /\ calls' = Append(calls, Call(name))
    /\ \E err \in BOOLEAN :
        IF err
        THEN /\ failed' = failed \cup {name}
             /\ Exit(code)
        ELSE /\ failed' = failed
             /\ pc' = next
             /\ exitCode' = exitCode

\* a call whose error is only logged
LoggedStep(at, name, nextOk, nextErr) ==
    /\ Alive
    /\ pc = at
    /\ calls' = Append(calls, Call(name))
    /\ \E err \in BOOLEAN :
        IF err
        THEN /\ failed' = failed \cup {name}
             /\ pc' = nextErr
        ELSE /\ failed' = failed
             /\ pc' = nextOk

\* ---- main ----
FlagParse ==
    /\ Alive
    /\ pc = "main"
    /\ \E err \in BOOLEAN, help \in BOOLEAN, g \in BOOLEAN :
        /\ genFlag' = g
        /\ IF err THEN Exit(1)
           ELSE IF help THEN Exit(0)
           ELSE /\ pc' = "NewBridge"
                /\ exitCode' = exitCode
    /\ UNCHANGED <<runtimeAbort, state, calls, failed, started, filesWritten>>
    /\ UNCHANGED <<regVars, stopVars, sigVars>>
    /\ UNCHANGED unitVars

\* variant: a config that fails to load is only logged
NewBridgeNoExit ==
    /\ LoggedStep("NewBridge", "ConfigLoad", "Main", "Main")
    /\ UNCHANGED <<genFlag, exitCode, runtimeAbort, state, started,
                   filesWritten>>
    /\ UNCHANGED <<regVars, stopVars, sigVars>>
    /\ UNCHANGED unitVars

NewBridge ==
    /\ FatalStep("NewBridge", "ConfigLoad", 10, "Main")
    /\ UNCHANGED <<genFlag, runtimeAbort, state, started, filesWritten>>
    /\ UNCHANGED <<regVars, stopVars, sigVars>>
    /\ UNCHANGED unitVars

Main ==
    /\ Alive
    /\ pc = "Main"
    /\ pc' = IF genFlag THEN "NewRegistration" ELSE "MakeAppService"
    /\ UNCHANGED <<genFlag, exitCode, runtimeAbort, state, calls, failed,
                   started, filesWritten>>
    /\ UNCHANGED <<regVars, stopVars, sigVars>>
    /\ UNCHANGED unitVars

\* ---- GenerateRegistration ----
GenNewRegistration ==
    /\ FatalStep("NewRegistration", "NewRegistration", 20, "RegSave")
    /\ UNCHANGED <<genFlag, runtimeAbort, state, started, filesWritten>>
    /\ UNCHANGED <<regVars, stopVars, sigVars>>
    /\ UNCHANGED unitVars

\* variant: a failed registration save is not fatal
GenRegSaveContinues ==
    /\ Alive
    /\ pc = "RegSave"
    /\ calls' = Append(calls, Call("RegSave"))
    /\ \E err \in BOOLEAN :
        /\ failed' = IF err THEN failed \cup {"RegSave"} ELSE failed
        /\ filesWritten' = IF err THEN filesWritten
                           ELSE Append(filesWritten, "registration")
    /\ pc' = "ConfigSave"
    /\ UNCHANGED <<genFlag, exitCode, runtimeAbort, state, started>>
    /\ UNCHANGED <<regVars, stopVars, sigVars>>
    /\ UNCHANGED unitVars

GenRegSave ==
    /\ FatalStep("RegSave", "RegSave", 21, "ConfigSave")
    /\ filesWritten' = IF "RegSave" \in failed' THEN filesWritten
                       ELSE Append(filesWritten, "registration")
    /\ UNCHANGED <<genFlag, runtimeAbort, state, started>>
    /\ UNCHANGED <<regVars, stopVars, sigVars>>
    /\ UNCHANGED unitVars

GenConfigSave ==
    /\ Alive
    /\ pc = "ConfigSave"
    /\ calls' = Append(calls, Call("ConfigSave"))
    /\ \E err \in BOOLEAN :
        IF err
        THEN /\ failed' = failed \cup {"ConfigSave"}
             /\ filesWritten' = filesWritten
             /\ Exit(22)
        ELSE /\ failed' = failed
             /\ filesWritten' = Append(filesWritten, "config")
             /\ Exit(0)
    /\ UNCHANGED <<genFlag, runtimeAbort, state, started>>
    /\ UNCHANGED <<regVars, stopVars, sigVars>>
    /\ UNCHANGED unitVars

\* ---- Init ----
InitMakeAppService ==
    /\ FatalStep("MakeAppService", "MakeAppService", 11, "ASInit")
    /\ UNCHANGED <<genFlag, runtimeAbort, state, started, filesWritten>>
    /\ UNCHANGED <<regVars, stopVars, sigVars>>
    /\ UNCHANGED unitVars

\* AS.Init(), BotIntent(), log.Create(), Logging.Configure: no error result
InitASInit ==
    /\ Alive
    /\ pc = "ASInit"
    /\ calls' = Append(calls, Call("ASInit"))
    /\ pc' = "OpenFile"
    /\ UNCHANGED <<genFlag, exitCode, runtimeAbort, state, failed, started,
                   filesWritten>>
    /\ UNCHANGED <<regVars, stopVars, sigVars>>
    /\ UNCHANGED unitVars

InitOpenFile ==
    /\ FatalStep("OpenFile", "OpenFile", 12, "StateStoreLoad")
    /\ UNCHANGED <<genFlag, runtimeAbort, state, started, filesWritten>>
    /\ UNCHANGED <<regVars, stopVars, sigVars>>
    /\ UNCHANGED unitVars

InitStateStoreLoad ==
    /\ FatalStep("StateStoreLoad", "StateStoreLoad", 13, "LoadUsers")
    /\ UNCHANGED <<genFlag, runtimeAbort, state, started, filesWritten>>
    /\ UNCHANGED <<regVars, stopVars, sigVars>>
    /\ UNCHANGED unitVars

\* the users collection is hydrated from storage: every stored User is in
\* the by-MXID index, the authenticated ones also in the by-JID index with
\* their stored session, none has a connection yet
InitLoadUsers ==
    /\ FatalStep("LoadUsers", "LoadUsers", 14, "LoadPortals")
    /\ IF "LoadUsers" \in failed'
       THEN UNCHANGED <<usersByMXID, usersByJID, session>>
       ELSE \E m \in SUBSET Users :
            \E j \in SUBSET m :
                /\ usersByMXID' = m
                /\ usersByJID' = j
                /\ session' = [u \in Users |-> IF u \in j THEN 1 ELSE 0]
    /\ UNCHANGED <<genFlag, runtimeAbort, state, started, filesWritten>>
    /\ UNCHANGED <<conn, usersChanged, stopVars, sigVars>>
    /\ UNCHANGED unitVars

\* variant: a portals failure exits with the code of a users failure
InitLoadPortalsCode14 ==
    /\ FatalStep("LoadPortals", "LoadPortals", 14, "LoadPuppets")
    /\ UNCHANGED <<genFlag, runtimeAbort, state, started, filesWritten>>
    /\ UNCHANGED <<regVars, stopVars, sigVars>>
    /\ UNCHANGED unitVars

InitLoadPortals ==
    /\ FatalStep("LoadPortals", "LoadPortals", 15, "LoadPuppets")
    /\ UNCHANGED <<genFlag, runtimeAbort, state, started, filesWritten>>
    /\ UNCHANGED <<regVars, stopVars, sigVars>>
    /\ UNCHANGED unitVars

\* variant: a puppets failure is logged and Init goes on
InitLoadPuppetsNoExit ==
    /\ LoggedStep("LoadPuppets", "LoadPuppets", "NewEventProcessor",
                  "NewEventProcessor")
    /\ UNCHANGED <<genFlag, exitCode, runtimeAbort, state, started,
                   filesWritten>>
    /\ UNCHANGED <<regVars, stopVars, sigVars>>
    /\ UNCHANGED unitVars

InitLoadPuppets ==
    /\ FatalStep("LoadPuppets", "LoadPuppets", 16, "NewEventProcessor")
    /\ UNCHANGED <<genFlag, runtimeAbort, state, started, filesWritten>>
    /\ UNCHANGED <<regVars, stopVars, sigVars>>
    /\ UNCHANGED unitVars

\* NewEventProcessor, NewMatrixHandler, NewFormatter; Init returns
InitFinish ==
    /\ Alive
    /\ pc = "NewEventProcessor"
    /\ calls' = Append(calls, Call("NewEventProcessor"))
    /\ state' = "Initialized"
    /\ pc' = "Start"
    /\ UNCHANGED <<genFlag, exitCode, runtimeAbort, failed, started,
                   filesWritten>>
    /\ UNCHANGED <<regVars, stopVars, sigVars>>
    /\ UNCHANGED unitVars

\* ---- Start: five go statements, then return ----
Start ==
    /\ Alive
    /\ pc = "Start"
    /\ calls' = Append(calls, Call("Start"))
    /\ started' = Units
    /\ state' = "Running"
    /\ pc' = "Notify"
    /\ UNCHANGED <<genFlag, exitCode, runtimeAbort, failed, filesWritten>>
    /\ UNCHANGED <<regVars, stopVars, sigVars>>
    /\ UNCHANGED unitVars

\* ---- Main: c := make(chan os.Signal); signal.Notify(c, ...); <-c ----
MainNotify ==
    /\ Alive
    /\ pc = "Notify"
    /\ sigRegistered' = TRUE
    /\ pc' = "Recv"
    /\ UNCHANGED <<genFlag, exitCode, runtimeAbort, state, calls, failed,
                   started, filesWritten>>
    /\ UNCHANGED <<regVars, stopVars, sigQueued, sigInRunning, sigReceived>>
    /\ UNCHANGED unitVars

\* <-c on the unbuffered channel: no sender is ever waiting (os/signal sends
\* without blocking), so the main goroutine parks as a receiver
MainRecv ==
    /\ Alive
    /\ pc = "Recv"
    /\ pc' = "Parked"
    /\ UNCHANGED <<genFlag, exitCode, runtimeAbort, state, calls, failed,
                   started, filesWritten>>
    /\ UNCHANGED <<regVars, stopVars, sigVars>>
    /\ UNCHANGED unitVars

\* the operating system delivers an interrupt or SIGTERM to the process:
\* without a registered channel the Go runtime ends the process, with one
\* the runtime queues the signal for the os/signal goroutine (a signal
\* that is already queued is not queued twice)
SignalArrives ==
    /\ Alive
    /\ sigInRunning' = (sigInRunning \/ state = "Running")
    /\ IF sigRegistered
       THEN /\ sigQueued' = TRUE
            /\ runtimeAbort' = runtimeAbort
       ELSE /\ sigQueued' = sigQueued
            /\ runtimeAbort' = "signal"
    /\ UNCHANGED <<pc, genFlag, exitCode, state, calls, failed, started,
                   filesWritten>>
    /\ UNCHANGED <<regVars, stopVars, sigRegistered, sigReceived>>
    /\ UNCHANGED unitVars

\* os/signal's goroutine: select { case c <- sig: default: }. The send on
\* the unbuffered c succeeds only when Main is parked in the receive.
SignalProcess ==
    /\ Alive
    /\ sigQueued
    /\ sigQueued' = FALSE
    /\ IF pc = "Parked"
       THEN /\ pc' = "Interrupted"
            /\ sigReceived' = TRUE
       ELSE /\ pc' = pc
            /\ sigReceived' = sigReceived
    /\ UNCHANGED <<genFlag, exitCode, runtimeAbort, state, calls, failed,
                   started, filesWritten>>
    /\ UNCHANGED <<regVars, stopVars, sigRegistered, sigInRunning>>
    /\ UNCHANGED unitVars

\* the receive returned: Main logs and calls Stop
MainInterrupted ==
    /\ Alive
    /\ pc = "Interrupted"
    /\ state' = "Stopping"
    /\ connAtStop' = conn
    /\ pc' = "StopSend"
    /\ UNCHANGED <<genFlag, exitCode, runtimeAbort, calls, failed, started,
                   filesWritten>>
    /\ UNCHANGED <<regVars, sigVars, stopSaveLoop, rangeStart, visited,
                   discErr, discTok, usersHanded>>
    /\ UNCHANGED unitVars

\* ---- Stop ----
\* bridge.stopSaveLoop <- true: blocks while the buffer is full
StopSend ==
    /\ Alive
    /\ pc = "StopSend"
    /\ stopSaveLoop < StopSaveLoopCap
    /\ stopSaveLoop' = stopSaveLoop + 1
    /\ calls' = Append(calls, Call("StopSignal"))
    /\ pc' = "ASStop"
    /\ UNCHANGED <<genFlag, exitCode, runtimeAbort, state, failed, started,
                   filesWritten>>
    /\ UNCHANGED <<regVars, sigVars, rangeStart, visited, connAtStop, discErr,
                   discTok, usersHanded>>
    /\ UNCHANGED unitVars

StopAS ==
    /\ Alive
    /\ pc = "ASStop"
    /\ calls' = Append(calls, Call("ASStop"))
    /\ pc' = "EPStop"
    /\ UNCHANGED <<genFlag, exitCode, runtimeAbort, state, failed, started,
                   filesWritten>>
    /\ UNCHANGED <<regVars, stopVars, sigVars>>
    /\ UNCHANGED unitVars

\* EventProcessor.Stop(), then the range over usersByJID begins
StopEP ==
    /\ Alive
    /\ pc = "EPStop"
    /\ calls' = Append(calls, Call("EPStop"))
    /\ rangeStart' = usersByJID
    /\ visited' = {}
    /\ pc' = "Range"
    /\ UNCHANGED <<genFlag, exitCode, runtimeAbort, state, failed, started,
                   filesWritten>>
    /\ UNCHANGED <<regVars, sigVars, stopSaveLoop, connAtStop, discErr,
                   discTok, usersHanded>>
    /\ UNCHANGED unitVars

\* variant: the returned session is stored whether or not err is nil
StopDisconnectStoresAlways(u, err, sess) ==
    /\ calls' = Append(calls, <<"Disconnect", u>>)
    /\ discErr' = IF err THEN discErr \cup {u} ELSE discErr
    /\ discTok' = IF err THEN discTok ELSE [discTok EXCEPT ![u] = sess]
    /\ session' = [session EXCEPT ![u] = sess]

\* sess, err := user.Conn.Disconnect(): an error is logged, the token of a
\* success is stored in the User record by SetSession
StopDisconnect(u, err, sess) ==
    /\ calls' = Append(calls, <<"Disconnect", u>>)
    /\ IF err
       THEN /\ discErr' = discErr \cup {u}
            /\ UNCHANGED <<discTok, session>>
       ELSE /\ discErr' = discErr
            /\ discTok' = [discTok EXCEPT ![u] = sess]
            /\ session' = [session EXCEPT ![u] = sess]

\* one iteration of the range: a user without connection is skipped, the
\* others are disconnected
StopRangeNext(u) ==
    /\ Alive
    /\ pc = "Range"
    /\ u \in usersByJID \ visited
    /\ visited' = visited \cup {u}
    /\ IF u \notin conn
       THEN UNCHANGED <<calls, discErr, discTok, session>>
       ELSE \E err \in BOOLEAN, sess \in Tokens(u) : StopDisconnect(u, err, sess)
    /\ UNCHANGED <<pc, genFlag, exitCode, runtimeAbort, state, failed, started,
                   filesWritten>>
    /\ UNCHANGED <<usersByMXID, usersByJID, conn, usersChanged, sigVars,
                   stopSaveLoop, rangeStart, connAtStop, usersHanded>>
    /\ UNCHANGED unitVars

\* the range ends once every entry present when it began was produced; an
\* entry inserted during the iteration may or may not have been produced
StopRangeEnd ==
    /\ Alive
    /\ pc = "Range"
    /\ rangeStart \subseteq visited
    /\ pc' = "StateStoreSave"
    /\ UNCHANGED <<genFlag, exitCode, runtimeAbort, state, calls, failed,
                   started, filesWritten>>
    /\ UNCHANGED <<regVars, stopVars, sigVars>>
    /\ UNCHANGED unitVars

StopStateStoreSave ==
    /\ LoggedStep("StateStoreSave", "StateStoreSave", "SaveUsers", "SaveUsers")
    /\ UNCHANGED <<genFlag, exitCode, runtimeAbort, state, started,
                   filesWritten>>
    /\ UNCHANGED <<regVars, stopVars, sigVars>>
    /\ UNCHANGED unitVars

\* variant: the puppets are saved before the portals
StopSaveUsersPuppetsNext ==
    /\ LoggedStep("SaveUsers", "SaveUsers", "SavePuppets", "StopReturn")
    /\ usersHanded' = session
    /\ UNCHANGED <<genFlag, exitCode, runtimeAbort, state, started,
                   filesWritten>>
    /\ UNCHANGED <<regVars, sigVars, stopSaveLoop, rangeStart, visited,
                   connAtStop, discErr, discTok>>
    /\ UNCHANGED unitVars

\* if err = SaveUsers(); err != nil {...} else if err = SavePortals() ...
StopSaveUsers ==
    /\ LoggedStep("SaveUsers", "SaveUsers", "SavePortals", "StopReturn")
    /\ usersHanded' = session
    /\ UNCHANGED <<genFlag, exitCode, runtimeAbort, state, started,
                   filesWritten>>
    /\ UNCHANGED <<regVars, sigVars, stopSaveLoop, rangeStart, visited,
                   connAtStop, discErr, discTok>>
    /\ UNCHANGED unitVars

StopSavePortals ==
    /\ LoggedStep("SavePortals", "SavePortals", "SavePuppets", "StopReturn")
    /\ UNCHANGED <<genFlag, exitCode, runtimeAbort, state, started,
                   filesWritten>>
    /\ UNCHANGED <<regVars, stopVars, sigVars>>
    /\ UNCHANGED unitVars

StopSavePuppets ==
    /\ LoggedStep("SavePuppets", "SavePuppets", "StopReturn", "StopReturn")
    /\ UNCHANGED <<genFlag, exitCode, runtimeAbort, state, started,
                   filesWritten>>
    /\ UNCHANGED <<regVars, stopVars, sigVars>>
    /\ UNCHANGED unitVars

\* Stop returned: Main logs and calls os.Exit(0)
MainExit ==
    /\ Alive
    /\ pc = "StopReturn"
    /\ state' = "Stopped"
    /\ Exit(0)
    /\ UNCHANGED <<genFlag, runtimeAbort, calls, failed, started, filesWritten>>
    /\ UNCHANGED <<regVars, stopVars, sigVars>>
    /\ UNCHANGED unitVars

\* ---- users registry, mutated by the goroutines Start launched ----
Serving == Alive /\ state \in {"Running", "Stopping"}

\* first contact of a Matrix user: the User enters the by-MXID index
NewUser(u) ==
    /\ Serving
    /\ u \notin usersByMXID
    /\ usersByMXID' = usersByMXID \cup {u}
    /\ UNCHANGED <<pc, genFlag, exitCode, runtimeAbort, state, calls, failed,
                   started, filesWritten>>
    /\ UNCHANGED <<usersByJID, conn, session, usersChanged, stopVars, sigVars>>
    /\ UNCHANGED unitVars

\* user.Connect: the User gets a live remote session
UserConnect(u) ==
    /\ Serving
    /\ u \in usersByMXID \ conn
    /\ conn' = conn \cup {u}
    /\ UNCHANGED <<pc, genFlag, exitCode, runtimeAbort, state, calls, failed,
                   started, filesWritten>>
    /\ UNCHANGED <<usersByMXID, usersByJID, session, usersChanged, stopVars,
                   sigVars>>
    /\ UNCHANGED unitVars

\* a connected User completes remote authentication and acquires its JID:
\* under usersLock the User enters the by-JID index, the collection is
\* marked dirty. Stop ranges over usersByJID without the lock, so a write
\* during the range is a concurrent map iteration and map write, which the
\* Go runtime may detect and end the process for.
UserLogin(u) ==
    /\ Serving
    /\ u \in (usersByMXID \cap conn) \ usersByJID
    /\ usersByJID' = usersByJID \cup {u}
    /\ usersChanged' = TRUE
    /\ \E detected \in BOOLEAN :
        runtimeAbort' = IF pc = "Range" /\ detected THEN "fatal"
                        ELSE runtimeAbort
    /\ UNCHANGED <<pc, genFlag, exitCode, state, calls, failed, started,
                   filesWritten>>
    /\ UNCHANGED <<usersByMXID, conn, session, stopVars, sigVars>>
    /\ UNCHANGED unitVars

Next ==
    \/ FlagParse
    \/ NewBridge
    \/ Main
    \/ GenNewRegistration
    \/ GenRegSave
    \/ GenConfigSave
    \/ InitMakeAppService
    \/ InitASInit
    \/ InitOpenFile
    \/ InitStateStoreLoad
    \/ InitLoadUsers
    \/ InitLoadPortals
    \/ InitLoadPuppets
    \/ InitFinish
    \/ Start
    \/ MainNotify
    \/ MainRecv
    \/ SignalArrives
    \/ SignalProcess
    \/ MainInterrupted
    \/ StopSend
    \/ StopAS
    \/ StopEP
    \/ \E u \in Users : StopRangeNext(u)
    \/ StopRangeEnd
    \/ StopStateStoreSave
    \/ StopSaveUsers
    \/ StopSavePortals
    \/ StopSavePuppets
    \/ MainExit
    \/ \E u \in Users : NewUser(u)
    \/ \E u \in Users : UserConnect(u)
    \/ \E u \in Users : UserLogin(u)

Spec == Init /\ [][Next]_vars

\* ---- UpdateBotProfile ----
AvatarValues == {"", "remove", "mxc://avatar"}
DisplaynameValues == {"", "remove", "WhatsApp bridge bot"}

\* the call the avatar step makes, <<>> when it makes none
AvatarCall(avatar) ==
    IF avatar = "remove" THEN <<"SetAvatarURL", "">>
    ELSE IF avatar # "" THEN <<"SetAvatarURL", avatar>>
    ELSE <<>>

\* the call the display-name step makes: the else-if tests the avatar
DisplaynameCall(avatar, displayname) ==
    IF displayname = "remove" THEN <<"SetDisplayName", "">>
    ELSE IF avatar # "" THEN <<"SetDisplayName", displayname>>
    ELSE <<>>

\* one step of UpdateBotProfile: make the call (if any), keep its error in
\* err, which is left as it was when no call is made, and warn when err is
\* not nil
BotStep(call, warning, next) ==
    /\ Alive
    /\ \E e \in BOOLEAN :
        /\ IF call = <<>>
           THEN /\ botErr' = botErr
                /\ UNCHANGED <<botCalls, botFailed>>
           ELSE /\ botErr' = e
                /\ botCalls' = Append(botCalls, call)
                /\ botFailed' = IF e THEN botFailed \cup {call[1]} ELSE botFailed
        /\ botWarns' = IF botErr' THEN botWarns \cup {warning} ELSE botWarns
    /\ pcBot' = next
    /\ UNCHANGED <<botAvatar, botDisplayname, usersLock, saveVars, startVars>>
    /\ UNCHANGED <<pc, genFlag, exitCode, runtimeAbort, state, calls, failed,
                   started, filesWritten>>
    /\ UNCHANGED <<regVars, stopVars, sigVars>>

BotAvatar ==
    /\ "UpdateBotProfile" \in started
    /\ pcBot = "idle"
    /\ BotStep(AvatarCall(botAvatar), "avatar", "displayname")

BotDisplayname ==
    /\ pcBot = "displayname"
    /\ BotStep(DisplaynameCall(botAvatar, botDisplayname), "displayname", "done")

\* the state in which Init has returned, with nothing loaded
InitReturned ==
    /\ pc = "Start"
    /\ genFlag = FALSE
    /\ exitCode = NoExit
    /\ runtimeAbort = "none"
    /\ state = "Initialized"
    /\ calls = <<Call("ConfigLoad")>> \o
               [k \in 1 .. Len(InitSteps) |-> Call(InitSteps[k])]
    /\ failed = {}
    /\ started = {}
    /\ filesWritten = <<>>
    /\ conn = {}
    /\ usersChanged = FALSE
    /\ stopSaveLoop = 0
    /\ rangeStart = {}
    /\ visited = {}
    /\ connAtStop = {}
    /\ discErr = {}
    /\ discTok = [u \in Users |-> 0]
    /\ usersHanded = <<>>
    /\ sigRegistered = FALSE
    /\ sigQueued = FALSE
    /\ sigInRunning = FALSE
    /\ sigReceived = FALSE
    /\ usersLock = "none"

InitProfile ==
    /\ InitReturned
    /\ usersByMXID = {}
    /\ usersByJID = {}
    /\ session = [u \in Users |-> 0]
    /\ botAvatar \in AvatarValues
    /\ botDisplayname \in DisplaynameValues
    /\ BotIdle
    /\ SaveIdle
    /\ StartIdle
    /\ customPuppets = {}

NextProfile ==
    \/ Start
    \/ MainNotify
    \/ MainRecv
    \/ BotAvatar
    \/ BotDisplayname

SpecProfile == InitProfile /\ [][NextProfile]_vars

\* ---- SaveLoop: the autosave loop, and the mutations that mark dirty ----
Collections == {"users", "portals", "puppets"}
Writing(c) == c \o "Writing"
NextCollection(c) ==
    CASE c = "users" -> "portals"
      [] c = "portals" -> "puppets"
      [] c = "puppets" -> "select"
Changed(c) ==
    CASE c = "users" -> usersChanged
      [] c = "portals" -> portalsChanged
      [] c = "puppets" -> puppetsChanged

\* the dirty flags after the flag of collection c is set to v
SetChanged(c, v) ==
    /\ usersChanged' = IF c = "users" THEN v ELSE usersChanged
    /\ portalsChanged' = IF c = "portals" THEN v ELSE portalsChanged
    /\ puppetsChanged' = IF c = "puppets" THEN v ELSE puppetsChanged

saveFrame ==
    /\ UNCHANGED <<pc, genFlag, exitCode, runtimeAbort, state, calls, failed,
                   started, filesWritten>>
    /\ UNCHANGED <<usersByMXID, usersByJID, conn, session, sigVars, usersLock,
                   botVars, startVars>>

\* a foreground operation changed an entity of collection c
MarkDirty(c) ==
    /\ Serving
    /\ ~ Changed(c)
    /\ SetChanged(c, TRUE)
    /\ UNCHANGED <<pcSL, autosaved, stopVars>>
    /\ saveFrame

\* the goroutine launched by Start enters its loop
SaveLoopBegin ==
    /\ Alive
    /\ "SaveLoop" \in started
    /\ pcSL = "idle"
    /\ pcSL' = "select"
    /\ UNCHANGED <<usersChanged, portalsChanged, puppetsChanged, autosaved,
                   stopVars>>
    /\ saveFrame

\* the timer fired: the loop goes through the three collections
SaveLoopTick ==
    /\ Alive
    /\ pcSL = "select"
    /\ pcSL' = "users"
    /\ UNCHANGED <<usersChanged, portalsChanged, puppetsChanged, autosaved,
                   stopVars>>
    /\ saveFrame

\* the stop signal is received between ticks: the loop ends
SaveLoopStop ==
    /\ Alive
    /\ pcSL = "select"
    /\ stopSaveLoop > 0
    /\ stopSaveLoop' = stopSaveLoop - 1
    /\ pcSL' = "stopped"
    /\ UNCHANGED <<usersChanged, portalsChanged, puppetsChanged, autosaved,
                   rangeStart, visited, connAtStop, discErr, discTok,
                   usersHanded>>
    /\ saveFrame

\* variant: every collection is written when the users flag is set
SaveLoopCheckUsersFlag(c) ==
    /\ Alive
    /\ pcSL = c
    /\ pcSL' = IF usersChanged THEN Writing(c) ELSE NextCollection(c)
    /\ UNCHANGED <<usersChanged, portalsChanged, puppetsChanged, autosaved,
                   stopVars>>
    /\ saveFrame

\* collection c is looked at: a set dirty flag starts the write of the full
\* collection, a clear one skips it
SaveLoopCheck(c) ==
    /\ Alive
    /\ pcSL = c
    /\ pcSL' = IF Changed(c) THEN Writing(c) ELSE NextCollection(c)
    /\ UNCHANGED <<usersChanged, portalsChanged, puppetsChanged, autosaved,
                   stopVars>>
    /\ saveFrame

\* the write of collection c completed: its flag is cleared
SaveLoopWritten(c) ==
    /\ Alive
    /\ pcSL = Writing(c)
    /\ autosaved' = autosaved \cup {c}
    /\ SetChanged(c, FALSE)
    /\ pcSL' = NextCollection(c)
    /\ UNCHANGED stopVars
    /\ saveFrame

InitSave ==
    /\ InitReturned
    /\ usersByMXID = {}
    /\ usersByJID = {}
    /\ session = [u \in Users |-> 0]
    /\ botAvatar = ""
    /\ botDisplayname = ""
    /\ BotIdle
    /\ SaveIdle
    /\ StartIdle
    /\ customPuppets = {}

NextSave ==
    \/ Start
    \/ MainNotify
    \/ MainRecv
    \/ SignalArrives
    \/ SignalProcess
    \/ MainInterrupted
    \/ StopSend
    \/ StopAS
    \/ StopEP
    \/ StopRangeEnd
    \/ StopStateStoreSave
    \/ StopSaveUsers
    \/ StopSavePortals
    \/ StopSavePuppets
    \/ MainExit
    \/ \E c \in Collections : MarkDirty(c)
    \/ SaveLoopBegin
    \/ SaveLoopTick
    \/ SaveLoopStop
    \/ \E c \in Collections : SaveLoopCheck(c)
    \/ \E c \in Collections : SaveLoopWritten(c)

SpecSave == InitSave /\ [][NextSave]_vars

\* ---- StartUsers: the start of every user and custom-MXID puppet, and the
\* ---- registry operations of other goroutines on the users collection ----
startFrame ==
    /\ UNCHANGED <<pc, genFlag, exitCode, runtimeAbort, state, calls, failed,
                   started, filesWritten>>
    /\ UNCHANGED <<session, stopVars, sigVars, botVars, saveVars,
                   customPuppets>>

Launched(u) == upc[u] # "none"
PuppetLaunched(p) == ppc[p] # "none"
\* the element the range over a snapshot produces next: the snapshot is an
\* ordered sequence, here in ascending order
NextUser ==
    {u \in snapshot : ~ Launched(u) /\ \A v \in snapshot : v < u => Launched(v)}
NextPuppet ==
    {p \in puppetSnapshot :
        ~ PuppetLaunched(p)
        /\ \A q \in puppetSnapshot : q < p => PuppetLaunched(q)}

\* the goroutine launched by `go bridge.StartUsers()` is scheduled
SUBegin ==
    /\ Alive
    /\ "StartUsers" \in started
    /\ pcSU = "idle"
    /\ pcSU' = "lockUsers"
    /\ UNCHANGED <<usersByMXID, usersByJID, conn, usersChanged, usersLock,
                   snapshot, upc, puppetsLock, puppetSnapshot, ppc, regpc>>
    /\ startFrame

\* GetAllUsers takes usersLock
SULockUsers ==
    /\ Alive
    /\ pcSU = "lockUsers"
    /\ usersLock = "none"
    /\ usersLock' = "StartUsers"
    /\ pcSU' = "copyUsers"
    /\ UNCHANGED <<usersByMXID, usersByJID, conn, usersChanged, snapshot,
                   upc, puppetsLock, puppetSnapshot, ppc, regpc>>
    /\ startFrame

\* variant: the caller ranges over the users while usersLock is still held
SUCopyUsersKeepLock ==
    /\ Alive
    /\ pcSU = "copyUsers"
    /\ snapshot' = usersByMXID
    /\ pcSU' = "launchUsers"
    /\ UNCHANGED <<usersByMXID, usersByJID, conn, usersChanged, usersLock,
                   upc, puppetsLock, puppetSnapshot, ppc, regpc>>
    /\ startFrame

\* GetAllUsers copies the users into a new sequence, releases usersLock and
\* returns the copy
SUCopyUsers ==
    /\ Alive
    /\ pcSU = "copyUsers"
    /\ snapshot' = usersByMXID
    /\ usersLock' = "none"
    /\ pcSU' = "launchUsers"
    /\ UNCHANGED <<usersByMXID, usersByJID, conn, usersChanged, upc,
                   puppetsLock, puppetSnapshot, ppc, regpc>>
    /\ startFrame

\* variant: user.Connect(false) is called without `go`, the range goes on
\* when the call has returned
SULaunchUserInline(u) ==
    /\ Alive
    /\ pcSU = "launchUsers"
    /\ u \in NextUser
    /\ \A v \in snapshot : Launched(v) => upc[v] \in {"ok", "failed"}
    /\ upc' = [upc EXCEPT ![u] = "running"]
    /\ UNCHANGED <<usersByMXID, usersByJID, conn, usersChanged, usersLock,
                   pcSU, snapshot, puppetsLock, puppetSnapshot, ppc, regpc>>
    /\ startFrame

\* go user.Connect(false) for the next user of the range
SULaunchUser(u) ==
    /\ Alive
    /\ pcSU = "launchUsers"
    /\ u \in NextUser
    /\ upc' = [upc EXCEPT ![u] = "running"]
    /\ UNCHANGED <<usersByMXID, usersByJID, conn, usersChanged, usersLock,
                   pcSU, snapshot, puppetsLock, puppetSnapshot, ppc, regpc>>
    /\ startFrame

\* the range over the users ended; GetAllPuppetsWithCustomMXID takes
\* puppetsLock
SULockPuppets ==
    /\ Alive
    /\ pcSU = "launchUsers"
    /\ NextUser = {}
    /\ puppetsLock = "none"
    /\ puppetsLock' = "StartUsers"
    /\ pcSU' = "copyPuppets"
    /\ UNCHANGED <<usersByMXID, usersByJID, conn, usersChanged, usersLock,
                   snapshot, upc, puppetSnapshot, ppc, regpc>>
    /\ startFrame

\* GetAllPuppetsWithCustomMXID copies the puppets that have a custom MXID,
\* releases puppetsLock and returns the copy
SUCopyPuppets ==
    /\ Alive
    /\ pcSU = "copyPuppets"
    /\ puppetSnapshot' = customPuppets
    /\ puppetsLock' = "none"
    /\ pcSU' = "launchPuppets"
    /\ UNCHANGED <<usersByMXID, usersByJID, conn, usersChanged, usersLock,
                   snapshot, upc, ppc, regpc>>
    /\ startFrame

\* go func(puppet) { puppet.StartCustomMXID() ... }(puppet) for the next
\* puppet of the range
SULaunchPuppet(p) ==
    /\ Alive
    /\ pcSU = "launchPuppets"
    /\ p \in NextPuppet
    /\ ppc' = [ppc EXCEPT ![p] = "running"]
    /\ UNCHANGED <<usersByMXID, usersByJID, conn, usersChanged, usersLock,
                   pcSU, snapshot, upc, puppetsLock, puppetSnapshot, regpc>>
    /\ startFrame

\* the range over the puppets ended: StartUsers returns
SUReturn ==
    /\ Alive
    /\ pcSU = "launchPuppets"
    /\ NextPuppet = {}
    /\ pcSU' = "done"
    /\ UNCHANGED <<usersByMXID, usersByJID, conn, usersChanged, usersLock,
                   snapshot, upc, puppetsLock, puppetSnapshot, ppc, regpc>>
    /\ startFrame

\* user.Connect returns in its goroutine, with a live session or with a
\* failure; a Connect that blocks never takes this step
ConnectReturns(u, ok) ==
    /\ Alive
    /\ upc[u] = "running"
    /\ upc' = [upc EXCEPT ![u] = IF ok THEN "ok" ELSE "failed"]
    /\ conn' = IF ok THEN conn \cup {u} ELSE conn
    /\ UNCHANGED <<usersByMXID, usersByJID, usersChanged, usersLock, pcSU,
                   snapshot, puppetsLock, puppetSnapshot, ppc, regpc>>
    /\ startFrame

\* puppet.StartCustomMXID returns in its goroutine; an error is logged there
StartCustomMXIDReturns(p, ok) ==
    /\ Alive
    /\ ppc[p] = "running"
    /\ ppc' = [ppc EXCEPT ![p] = IF ok THEN "ok" ELSE "failed"]
    /\ UNCHANGED <<usersByMXID, usersByJID, conn, usersChanged, usersLock,
                   pcSU, snapshot, upc, puppetsLock, puppetSnapshot, regpc>>
    /\ startFrame

\* the index write an insert of u makes: first, then the other one
InsertWrite(u, index) ==
    /\ usersByMXID' = IF index = "MXID" THEN usersByMXID \cup {u}
                      ELSE usersByMXID
    /\ usersByJID' = IF index = "JID" THEN usersByJID \cup {u}
                     ELSE usersByJID

\* variant: the insert writes its first index without taking usersLock
InsertBeginNoLock(u, withJID, jidFirst) ==
    /\ Alive
    /\ "AS" \in started
    /\ regpc[u] = "idle"
    /\ u \notin usersByMXID \cup usersByJID
    /\ InsertWrite(u, IF withJID /\ jidFirst THEN "JID" ELSE "MXID")
    /\ regpc' = [regpc EXCEPT ![u] =
                    IF ~ withJID THEN "idle"
                    ELSE IF jidFirst THEN "needMXID" ELSE "needJID"]
    /\ UNCHANGED <<conn, usersChanged, usersLock, pcSU, snapshot, upc,
                   puppetsLock, puppetSnapshot, ppc>>
    /\ startFrame

\* a goroutine serving a request inserts the new User u: it takes usersLock
\* and writes the first of the user's indexes
InsertBegin(u, withJID, jidFirst) ==
    /\ Alive
    /\ "AS" \in started
    /\ regpc[u] = "idle"
    /\ usersLock = "none"
    /\ u \notin usersByMXID \cup usersByJID
    /\ usersLock' = "caller"
    /\ InsertWrite(u, IF withJID /\ jidFirst THEN "JID" ELSE "MXID")
    /\ regpc' = [regpc EXCEPT ![u] =
                    IF ~ withJID THEN "unlock"
                    ELSE IF jidFirst THEN "needMXID" ELSE "needJID"]
    /\ UNCHANGED <<conn, usersChanged, pcSU, snapshot, upc, puppetsLock,
                   puppetSnapshot, ppc>>
    /\ startFrame

\* the insert writes the user's other index
InsertSecond(u) ==
    /\ Alive
    /\ regpc[u] \in {"needMXID", "needJID"}
    /\ InsertWrite(u, IF regpc[u] = "needMXID" THEN "MXID" ELSE "JID")
    /\ regpc' = [regpc EXCEPT ![u] =
                    IF usersLock = "caller" THEN "unlock" ELSE "idle"]
    /\ UNCHANGED <<conn, usersChanged, usersLock, pcSU, snapshot, upc,
                   puppetsLock, puppetSnapshot, ppc>>
    /\ startFrame

\* a connected User completed remote authentication: under usersLock it
\* enters the by-JID index and the collection is marked dirty
UpdateJID(u) ==
    /\ Alive
    /\ regpc[u] = "idle"
    /\ usersLock = "none"
    /\ u \in (usersByMXID \cap conn) \ usersByJID
    /\ usersLock' = "caller"
    /\ usersByJID' = usersByJID \cup {u}
    /\ usersChanged' = TRUE
    /\ regpc' = [regpc EXCEPT ![u] = "unlock"]
    /\ UNCHANGED <<usersByMXID, conn, pcSU, snapshot, upc, puppetsLock,
                   puppetSnapshot, ppc>>
    /\ startFrame

\* the registry operation on u releases usersLock and returns
RegistryUnlock(u) ==
    /\ Alive
    /\ regpc[u] = "unlock"
    /\ usersLock' = "none"
    /\ regpc' = [regpc EXCEPT ![u] = "idle"]
    /\ UNCHANGED <<usersByMXID, usersByJID, conn, usersChanged, pcSU,
                   snapshot, upc, puppetsLock, puppetSnapshot, ppc>>
    /\ startFrame

\* Init returned: the users and puppets loaded from storage are in the
\* registry, every loaded user with a JID in both indexes
InitStart ==
    /\ InitReturned
    /\ usersByMXID \in SUBSET Users
    /\ usersByJID \in SUBSET usersByMXID
    /\ session = [u \in Users |-> IF u \in usersByJID THEN 1 ELSE 0]
    /\ botAvatar = ""
    /\ botDisplayname = ""
    /\ BotIdle
    /\ SaveIdle
    /\ StartIdle
    /\ customPuppets \in SUBSET Puppets

NextStart ==
    \/ Start
    \/ SUBegin
    \/ SULockUsers
    \/ SUCopyUsers
    \/ \E u \in Users : SULaunchUser(u)
    \/ SULockPuppets
    \/ SUCopyPuppets
    \/ \E p \in Puppets : SULaunchPuppet(p)
    \/ SUReturn
    \/ \E u \in Users, ok \in BOOLEAN : ConnectReturns(u, ok)
    \/ \E p \in Puppets, ok \in BOOLEAN : StartCustomMXIDReturns(p, ok)
    \/ \E u \in Users, withJID \in BOOLEAN, jidFirst \in BOOLEAN :
        InsertBegin(u, withJID, jidFirst)
    \/ \E u \in Users : InsertSecond(u)
    \/ \E u \in Users : UpdateJID(u)
    \/ \E u \in Users : RegistryUnlock(u)

SpecStart == InitStart /\ [][NextStart]_vars

\* ---- properties ----
Disconnects(u) == CountOf(calls, <<"Disconnect", u>>)
Persisting == pc \in {"StateStoreSave", "SaveUsers", "SavePortals",
                      "SavePuppets", "StopReturn"}
\* Stop has run to its end
StopReturned ==
    /\ Called("SaveUsers")
    /\ \/ "SaveUsers" \in failed
       \/ /\ Called("SavePortals")
          /\ "SavePortals" \in failed \/ Called("SavePuppets")
    /\ pc \in {"StopReturn", "exited"}

\* C1: when Stop has returned, the state-store save, SaveUsers, SavePortals
\* and SavePuppets have all been invoked, whatever each of them returned.
C1_AllSavesInvoked ==
    StopReturned =>
        /\ Called("StateStoreSave")
        /\ Called("SaveUsers")
        /\ Called("SavePortals")
        /\ Called("SavePuppets")

\* C2: when Stop has returned and the Disconnect of some user failed, every
\* user that had a live session when Stop began was sent Disconnect exactly
\* once, and the state-store save and the three registry saves were made.
C2_OthersDisconnectedAndSaved ==
    (StopReturned /\ discErr # {}) =>
        /\ \A u \in connAtStop : Disconnects(u) = 1
        /\ Called("StateStoreSave")
        /\ Called("SaveUsers")
        /\ Called("SavePortals")
        /\ Called("SavePuppets")

\* C3: when Stop reaches the persistence steps, Disconnect has been
\* requested for every user that had a live session when Stop began,
\* whichever index the user is reachable from.
C3_EverySessionDisconnected ==
    Persisting => \A u \in connAtStop : Disconnects(u) >= 1

\* C4: the shutdown calls are made in the fixed order stop signal, AS.Stop,
\* EventProcessor.Stop, the disconnects, state-store save, SaveUsers,
\* SavePortals, SavePuppets: no call of a later step precedes a call of an
\* earlier one, and a step is only begun after the step before it was made
\* (each call follows a call of the step just before it; the disconnects
\* may repeat and may be absent).
StopRank(c) ==
    LET n == c[1]
    IN  CASE n = "StopSignal" -> 1
          [] n = "ASStop" -> 2
          [] n = "EPStop" -> 3
          [] n = "Disconnect" -> 4
          [] n = "StateStoreSave" -> 5
          [] n = "SaveUsers" -> 6
          [] n = "SavePortals" -> 7
          [] n = "SavePuppets" -> 8
          [] OTHER -> 0
StopSuccession == {<<0, 1>>, <<1, 2>>, <<2, 3>>, <<3, 4>>, <<4, 4>>, <<3, 5>>,
                   <<4, 5>>, <<5, 6>>, <<6, 7>>, <<7, 8>>}
C4_ShutdownOrder ==
    \A j \in 1 .. Len(calls) :
        LET r == StopRank(calls[j])
            q == IF j = 1 THEN 0 ELSE StopRank(calls[j - 1])
        IN  /\ r > 0 => <<q, r>> \in StopSuccession
            /\ r = 0 => q = 0
C4_Witness ==
    /\ pc = "StopReturn"
    /\ Called("SavePuppets")
    /\ \E u, v \in Users : u # v /\ Disconnects(u) = 1 /\ Disconnects(v) = 1

\* C5: the sessions handed to SaveUsers hold the token of every user whose
\* Disconnect succeeded; the step in which a Disconnect fails leaves that
\* user's stored session as it was, and during Stop a stored session only
\* changes to the token a successful Disconnect just returned.
C5_TokensSavedInv ==
    /\ usersHanded # <<>> =>
        \A u \in Users : discTok[u] # 0 => usersHanded[u] = discTok[u]
    /\ usersHanded # <<>> =>
        \A u \in discErr : usersHanded[u] \in StoredSessions
C5_TokensSavedStep ==
    state = "Stopping" =>
        \A u \in Users :
            /\ u \in discErr' \ discErr => session'[u] = session[u]
            /\ session'[u] # session[u] =>
                /\ u \notin discErr'
                /\ discTok'[u] = session'[u]
                /\ ~ Called("SaveUsers")
C5_TokensSaved == [] C5_TokensSavedInv /\ [][C5_TokensSavedStep]_vars
C5_Witness ==
    /\ usersHanded # <<>>
    /\ discErr # {}
    /\ \E u \in Users : discTok[u] # 0 /\ usersHanded[u] = discTok[u]

\* C6: a process that exits 0 after Stop has made steps (1)(2)(3)(5)(6),
\* that is the stop signal, AS.Stop, EventProcessor.Stop, the state-store
\* save and the saves of users, portals and puppets; with no live session
\* no Disconnect was called.
C6_StoppedAfterAllSteps ==
    (state = "Stopped" /\ conn = {}) =>
        /\ exitCode = 0
        /\ \A u \in Users : Disconnects(u) = 0
        /\ Called("StopSignal")
        /\ Called("ASStop")
        /\ Called("EPStop")
        /\ Called("StateStoreSave")
        /\ Called("SaveUsers")
        /\ Called("SavePortals")
        /\ Called("SavePuppets")

\* C7: a termination signal that arrives after Start has returned is never
\* lost: it is queued for delivery or Main has received it.
C7_SignalNeverLost ==
    sigInRunning => (sigQueued \/ sigReceived)

\* C8: the lifecycle only moves Unconfigured -> Initialized -> Running ->
\* Stopping -> Stopped; Start runs only after every Init step succeeded,
\* Stop only after Start returned, and the exit 0 of the normal path only
\* after Stop returned.
LifecycleChain == {<<"Unconfigured", "Initialized">>,
                   <<"Initialized", "Running">>,
                   <<"Running", "Stopping">>,
                   <<"Stopping", "Stopped">>}
C8_LifecycleInv ==
    /\ (Called("Start") \/ started # {}) =>
        /\ IndexOf(Call("Start")) = Len(InitSteps) + 2
        /\ \A k \in 1 .. Len(InitSteps) : calls[k + 1] = Call(InitSteps[k])
        /\ failed \cap ({"ConfigLoad"} \cup {InitSteps[k] : k \in 1 .. Len(InitSteps)}) = {}
    /\ (\E i \in 1 .. Len(calls) : StopRank(calls[i]) > 0) =>
        /\ Called("Start")
        /\ state \in {"Stopping", "Stopped"}
    /\ (exitCode = 0 /\ Called("MakeAppService")) =>
        /\ StopReturned
        /\ state = "Stopped"
    /\ state = "Stopped" => exitCode = 0
C8_LifecycleStep == state' # state => <<state, state'>> \in LifecycleChain
C8_Lifecycle == [] C8_LifecycleInv /\ [][C8_LifecycleStep]_vars
C8_Witness == state = "Stopped" /\ exitCode = 0 /\ StopReturned

\* C9: a failing step before Running ends the process with the code of
\* that step (10 config, 11 app service, 12 log file, 13 state store,
\* 14 users, 15 portals, 16 puppets); it is the last call made, and no
\* unit is ever started.
InitFailCode ==
    [n \in {"ConfigLoad", "MakeAppService", "OpenFile", "StateStoreLoad",
            "LoadUsers", "LoadPortals", "LoadPuppets"} |->
        CASE n = "ConfigLoad" -> 10
          [] n = "MakeAppService" -> 11
          [] n = "OpenFile" -> 12
          [] n = "StateStoreLoad" -> 13
          [] n = "LoadUsers" -> 14
          [] n = "LoadPortals" -> 15
          [] n = "LoadPuppets" -> 16]
C9_InitFailureAborts ==
    /\ \A n \in DOMAIN InitFailCode :
        n \in failed =>
            /\ exitCode = InitFailCode[n]
            /\ calls[Len(calls)] = Call(n)
            /\ CountOf(calls, Call(n)) = 1
            /\ failed = {n}
            /\ started = {}
            /\ state = "Unconfigured"
            /\ pc = "exited"
    /\ exitCode \in 10 .. 16 =>
        \E n \in DOMAIN InitFailCode : n \in failed /\ InitFailCode[n] = exitCode
    /\ (state = "Unconfigured" /\ ~ genFlag /\ pc = "exited" /\ exitCode > 1) =>
        exitCode \in 10 .. 16
C9_Witness == "LoadPortals" \in failed /\ exitCode = 15 /\ Called("LoadUsers")

\* C10: with -g and a loadable config the only calls are NewRegistration,
\* the registration save and the config save, in that order; success exits
\* 0 with both files written, a failure exits 20, 21 or 22 and nothing
\* later is written; Init and Start never run.
GenSequence == <<"ConfigLoad", "NewRegistration", "RegSave", "ConfigSave">>
C10_GenerateOnly ==
    (genFlag /\ Called("ConfigLoad") /\ "ConfigLoad" \notin failed) =>
        /\ Len(calls) <= Len(GenSequence)
        /\ \A i \in 1 .. Len(calls) : calls[i] = Call(GenSequence[i])
        /\ started = {}
        /\ state = "Unconfigured"
        /\ "NewRegistration" \in failed => exitCode = 20 /\ filesWritten = <<>>
        /\ "RegSave" \in failed => exitCode = 21 /\ filesWritten = <<>>
        /\ "ConfigSave" \in failed =>
            exitCode = 22 /\ filesWritten = <<"registration">>
        /\ exitCode # NoExit =>
            /\ failed # {} \/ exitCode = 0
            /\ exitCode = 0 => filesWritten = <<"registration", "config">>
            /\ exitCode = 0 => Len(calls) = Len(GenSequence)
        /\ (exitCode = NoExit /\ pc = "ConfigSave") =>
            filesWritten = <<"registration">>
        /\ (exitCode = NoExit /\ pc \in {"Main", "NewRegistration", "RegSave"}) =>
            filesWritten = <<>>
C10_Witness ==
    /\ genFlag
    /\ exitCode = 0
    /\ filesWritten = <<"registration", "config">>

\* C11: a config that fails to load ends the process with code 10 with no
\* other call made and no file written, with or without -g; the config
\* load is the first call of every run and precedes every write.
C11_ConfigFailureWritesNothing ==
    /\ "ConfigLoad" \in failed =>
        /\ exitCode = 10
        /\ pc = "exited"
        /\ calls = <<Call("ConfigLoad")>>
        /\ filesWritten = <<>>
        /\ started = {}
        /\ usersHanded = <<>>
    /\ calls # <<>> => calls[1] = Call("ConfigLoad")
    /\ filesWritten # <<>> => "ConfigLoad" \notin failed
C11_Witness == genFlag /\ "ConfigLoad" \in failed /\ exitCode = 10

\* C15: while Stop iterates usersByJID and a goroutine that will write
\* usersByJID is still running, the main goroutine holds usersLock.
UsersWriterRunning == Serving /\ (usersByMXID \cap conn) \ usersByJID # {}
C15_RangeHoldsUsersLock ==
    (pc = "Range" /\ UsersWriterRunning) => usersLock = "main"

\* the call the reconciliation policy asks for, given the field's own value
PolicyCall(setter, value) ==
    IF value = "remove" THEN <<setter, "">>
    ELSE IF value # "" THEN <<setter, value>>
    ELSE <<>>
CallsOf(setter) == SelectSeq(botCalls, LAMBDA c : c[1] = setter)
AsCalls(call) == IF call = <<>> THEN <<>> ELSE <<call>>

\* C12: when UpdateBotProfile is done, the calls made for each field are
\* those its own configured value asks for: clear on "remove", set on a
\* value, none on the empty value, whatever the other field is.
C12_PerFieldPolicy ==
    pcBot = "done" =>
        /\ CallsOf("SetAvatarURL") = AsCalls(PolicyCall("SetAvatarURL", botAvatar))
        /\ CallsOf("SetDisplayName") =
               AsCalls(PolicyCall("SetDisplayName", botDisplayname))

\* C14: when setting the avatar failed, the process is still alive and,
\* once UpdateBotProfile is done, the display-name calls are those the
\* display-name policy asks for.
C14_AvatarFailureIsolated ==
    "SetAvatarURL" \in botFailed =>
        /\ Alive
        /\ pcBot \in {"displayname", "done"}
        /\ pcBot = "done" =>
               CallsOf("SetDisplayName") =
                   AsCalls(PolicyCall("SetDisplayName", botDisplayname))

\* C16: Stop never invokes the final save of a collection while the
\* autosave loop is writing that collection, and the autosave loop never
\* starts a write once Stop has begun its final persistence.
FinalPersistenceBegun ==
    Called("StateStoreSave") \/ pc \in {"SaveUsers", "SavePortals",
                                        "SavePuppets", "StopReturn"}
C16_Step ==
    /\ (pc = "SaveUsers" /\ pc' # "SaveUsers") => pcSL # Writing("users")
    /\ (pc = "SavePortals" /\ pc' # "SavePortals") => pcSL # Writing("portals")
    /\ (pc = "SavePuppets" /\ pc' # "SavePuppets") => pcSL # Writing("puppets")
    /\ \A c \in Collections :
        (pcSL = c /\ pcSL' = Writing(c)) => ~ FinalPersistenceBegun
C16_NoAutosaveDuringShutdown == [][C16_Step]_vars

\* C17: in a tick each collection is handled by its own flag alone: a set
\* flag starts the write of that collection and the completed write clears
\* the flag, a clear flag skips the collection and stays clear; no step of
\* one collection touches the flag of another, and nothing is written
\* except by the write of a collection whose flag was set.
C17_Step ==
    /\ \A c \in Collections :
        /\ (pcSL = c /\ pcSL' # c) =>
            /\ Changed(c) => pcSL' = Writing(c)
            /\ ~ Changed(c) => pcSL' = NextCollection(c) /\ ~ Changed(c)'
            /\ autosaved' = autosaved
        /\ (pcSL = Writing(c) /\ pcSL' # Writing(c)) =>
            /\ autosaved' = autosaved \cup {c}
            /\ ~ Changed(c)'
            /\ pcSL' = NextCollection(c)
        /\ (pcSL \in {c, Writing(c)} /\ pcSL' # pcSL) =>
            \A d \in Collections \ {c} : Changed(d)' = Changed(d)
    /\ autosaved' # autosaved => \E c \in Collections : pcSL = Writing(c)
C17_PerCollectionFlag == [][C17_Step]_vars
C17_Witness ==
    /\ "portals" \in autosaved
    /\ "users" \notin autosaved
    /\ ~ portalsChanged
    /\ pcSL = "puppets"

\* C20: the send on stopSaveLoop is made at most once and, whenever Stop is
\* at it, it can complete at once: the buffer has room whatever the
\* autosave goroutine is doing.
C20_StopSendNeverBlocks ==
    /\ CountOf(calls, Call("StopSignal")) <= 1
    /\ (Alive /\ pc = "StopSend") =>
        /\ stopSaveLoop < StopSaveLoopCap
        /\ ENABLED StopSend
C20_Witness ==
    /\ pc = "ASStop"
    /\ stopSaveLoop = 1
    /\ pcSL = Writing("users")

\* C13: Start launches the five units in one step and returns with the
\* bridge Running whatever the units do afterwards; the range of StartUsers
\* can always launch its next user or puppet, whether the Connect and
\* StartCustomMXID calls launched before are running, blocked or failed,
\* so when StartUsers returns every user and every custom-MXID puppet of
\* its snapshots has had its start attempt.
C13_StartupTolerant ==
    /\ pc # "Start" => started = Units /\ state = "Running"
    /\ pcSU # "idle" => pc # "Start"
    /\ (Alive /\ pcSU = "launchUsers") =>
        \A u \in NextUser : ENABLED SULaunchUser(u)
    /\ (Alive /\ pcSU = "launchPuppets") =>
        \A p \in NextPuppet :
            ENABLED SULaunchPuppet(p)
    /\ pcSU \in {"copyPuppets", "launchPuppets", "done"} =>
        \A u \in snapshot : Launched(u)
    /\ pcSU = "done" => \A p \in puppetSnapshot : PuppetLaunched(p)
C13_Witness ==
    /\ pcSU = "done"
    /\ upc[1] = "running"
    /\ upc[2] = "failed"
    /\ ppc[1] = "failed"
    /\ ppc[2] = "ok"

C18_IndexesAgree ==
    /\ usersLock = "none" => usersByJID \subseteq usersByMXID
    /\ \A u \in Users :
        regpc[u] \in {"needMXID", "needJID", "unlock"} => usersLock = "caller"
C18_Witness ==
    /\ usersLock = "none"
    /\ regpc = [u \in Users |-> "idle"]
    /\ usersByJID = Users
    /\ usersChanged

====
